---- MODULE Spec2Model ----
(***************************************************************************)
(* Model of nmstate's per-family IP configuration (rust/src/lib/ip.rs):    *)
(* InterfaceIpv4 / InterfaceIpv6 with update, cleanup, pre_edit_cleanup    *)
(* and pre_verify_cleanup, the link-local test on the printed address, and *)
(* include_current_ip_address_if_dhcp_on_to_off over two interface sets.   *)
(* Model of NmApi (rust/src/lib/nm/nm_dbus/nm_api.rs): the checkpoint      *)
(* calls, the enumerations and wait_checkpoint_rollback, against a daemon  *)
(* described by the specification; and of gen_ethtool_setting              *)
(* (rust/src/lib/nm/ethtool.rs).                                           *)
(*                                                                         *)
(* Option<T> is a sequence of length at most one: None is <<>> and Some(x) *)
(* is <<x>>.  A Rust String is a sequence of one-character strings.  An    *)
(* IpAddr is the tuple of its 4 octets (V4) or of its 8 segments (V6).     *)
(***************************************************************************)
EXTENDS Integers, Sequences, FiniteSets, TLC

VARIABLES family, conf, prev, patch, op, chg_net_state, current, agg_prev, agg_op,
          nm_checkpoints, cp_state, inv, nm_objs, en, pl,
          iface_ethtool, nm_conn_ethtool, eth_prev, eth_op

ipVars == <<family, conf, prev, patch, op>>
aggVars == <<chg_net_state, current, agg_prev, agg_op>>
cpVars == <<nm_checkpoints, cp_state, inv>>
devVars == <<nm_objs, en, pl>>
ethVars == <<iface_ethtool, nm_conn_ethtool, eth_prev, eth_op>>
apiVars == <<cpVars, devVars, ethVars>>
vars == <<family, conf, prev, patch, op, chg_net_state, current, agg_prev, agg_op,
          nm_checkpoints, cp_state, inv, nm_objs, en, pl,
          iface_ethtool, nm_conn_ethtool, eth_prev, eth_op>>

\* Longest address list drawn as an input.
MaxAddrs == 2

None == <<>>
Some(x) == <<x>>
is_none(o) == o = <<>>
is_some(o) == o # <<>>
unwrap(o) == o[1]

OptionBool == {None, Some(TRUE), Some(FALSE)}

-----------------------------------------------------------------------------
\* Text of an address, as std's Display prints it.

HexDigits == <<"0", "1", "2", "3", "4", "5", "6", "7", "8", "9", "a", "b", "c", "d", "e", "f">>

RECURSIVE HexStr(_)
\* format!("{:x}", n): lower-case hexadecimal without leading zeros.
HexStr(n) ==
    IF n < 16 THEN <<HexDigits[n + 1]>>
    ELSE HexStr(n \div 16) \o <<HexDigits[(n % 16) + 1]>>

RECURSIVE DecStr(_)
\* format!("{}", n) of an octet.
DecStr(n) ==
    IF n < 10 THEN <<HexDigits[n + 1]>>
    ELSE DecStr(n \div 10) \o <<HexDigits[(n % 10) + 1]>>

Ipv4Str(o) ==
    DecStr(o[1]) \o <<".">> \o DecStr(o[2]) \o <<".">> \o DecStr(o[3]) \o <<".">> \o DecStr(o[4])

RECURSIVE fmt_subslice(_)
\* Segments in hexadecimal joined by ':'.
fmt_subslice(segs) ==
    IF Len(segs) = 0 THEN <<>>
    ELSE IF Len(segs) = 1 THEN HexStr(segs[1])
    ELSE HexStr(segs[1]) \o <<":">> \o fmt_subslice(Tail(segs))

\* Length of the run of zero segments starting at position i.
RECURSIVE ZeroRun(_, _)
ZeroRun(segs, i) ==
    IF i > Len(segs) \/ segs[i] # 0 THEN 0 ELSE 1 + ZeroRun(segs, i + 1)

\* Start of the first longest run of zero segments (0 when there is none).
LongestZeroStart(segs) ==
    IF \A i \in 1..Len(segs) : segs[i] # 0 THEN 0
    ELSE CHOOSE i \in 1..Len(segs) :
            /\ ZeroRun(segs, i) > 0
            /\ \A j \in 1..Len(segs) : ZeroRun(segs, j) <= ZeroRun(segs, i)
            /\ \A j \in 1..(i - 1) : ZeroRun(segs, j) < ZeroRun(segs, i)

Ipv6Str(s) ==
    IF s = <<0, 0, 0, 0, 0, 0, 0, 0>> THEN <<":", ":">>
    ELSE IF s = <<0, 0, 0, 0, 0, 0, 0, 1>> THEN <<":", ":", "1">>
    ELSE IF SubSeq(s, 1, 6) = <<0, 0, 0, 0, 0, 65535>>
    THEN <<":", ":", "f", "f", "f", "f", ":">>
            \o Ipv4Str(<<s[7] \div 256, s[7] % 256, s[8] \div 256, s[8] % 256>>)
    ELSE LET z == LongestZeroStart(s)
             n == IF z = 0 THEN 0 ELSE ZeroRun(s, z)
         IN IF n > 1
            THEN fmt_subslice(SubSeq(s, 1, z - 1)) \o <<":", ":">>
                    \o fmt_subslice(SubSeq(s, z + n, 8))
            ELSE fmt_subslice(s)

IsV6(ip) == Len(ip) = 8

\* addr.ip.to_string()
to_string(ip) == IF IsV6(ip) THEN Ipv6Str(ip) ELSE Ipv4Str(ip)

is_ipv6_addr(addr) == \E i \in 1..Len(addr) : addr[i] = ":"

is_ipv6_unicast_link_local(ip, prefix) ==
    /\ is_ipv6_addr(ip)
    /\ Len(ip) >= 3
    /\ SubSeq(ip, 1, 3) \in {<<"f", "e", "8">>, <<"f", "e", "9">>,
                            <<"f", "e", "a">>, <<"f", "e", "b">>}
    /\ prefix >= 10

-----------------------------------------------------------------------------
\* Ordering of (ip, prefix_length), as the derived Ord of IpAddr and u8 give it.

RECURSIVE SeqLess(_, _)
\* Lexicographic order of two tuples of equal length.
SeqLess(a, b) ==
    IF Len(a) = 0 THEN FALSE
    ELSE IF a[1] # b[1] THEN a[1] < b[1]
    ELSE SeqLess(Tail(a), Tail(b))

\* IpAddr: every V4 sorts before every V6; inside a variant, by the numbers.
IpLess(a, b) ==
    IF Len(a) # Len(b) THEN Len(a) < Len(b) ELSE SeqLess(a, b)

\* Mutant of AddrLess: the comparator forgets the prefix length.
AddrLess_ip_only(a, b) == IpLess(a.ip, b.ip)

\* (&a.ip, a.prefix_length).cmp(&(&b.ip, b.prefix_length)) == Less
AddrLess(a, b) ==
    \/ IpLess(a.ip, b.ip)
    \/ a.ip = b.ip /\ a.prefix_length < b.prefix_length

RECURSIVE Insert(_, _)
Insert(a, sorted) ==
    IF Len(sorted) = 0 THEN <<a>>
    ELSE IF AddrLess(a, sorted[1]) THEN <<a>> \o sorted
    ELSE <<sorted[1]>> \o Insert(a, Tail(sorted))

RECURSIVE sort_unstable_by(_)
\* addrs.sort_unstable_by(cmp): two entries that compare equal are identical,
\* so the sorted order is unique whatever the algorithm.
sort_unstable_by(addrs) ==
    IF Len(addrs) = 0 THEN <<>>
    ELSE Insert(addrs[1], sort_unstable_by(Tail(addrs)))

IsLinkLocalAddr(addr) == is_ipv6_unicast_link_local(to_string(addr.ip), addr.prefix_length)
NotLinkLocalAddr(addr) == ~IsLinkLocalAddr(addr)

\* addrs.retain(|addr| !is_ipv6_unicast_link_local(...))
retain_not_link_local(addrs) == SelectSeq(addrs, NotLinkLocalAddr)

-----------------------------------------------------------------------------
\* InterfaceIpv4

contains(list, name) == \E i \in 1..Len(list) : list[i] = name

RECURSIVE push_missing(_, _)
\* for name in &other.prop_list { if !self.prop_list.contains(name) { push } }
push_missing(self_list, other_list) ==
    IF Len(other_list) = 0 THEN self_list
    ELSE push_missing(
            IF contains(self_list, other_list[1]) THEN self_list
            ELSE Append(self_list, other_list[1]),
            Tail(other_list))

\* InterfaceIpv4::new(): the derived Default.
Ipv4_new ==
    [enabled |-> FALSE, prop_list |-> <<>>, dhcp |-> None, addresses |-> None,
     dns |-> None, auto_dns |-> None, auto_gateway |-> None,
     auto_routes |-> None, auto_table_id |-> None]

Ipv4_is_auto(self) == self.enabled /\ self.dhcp = Some(TRUE)

\* Mutant of Ipv4_cleanup: the DHCP options are tested before DHCP is reset.
Ipv4_cleanup_options_first(self) ==
    LET s1 == IF self.dhcp # Some(TRUE)
              THEN [self EXCEPT !.auto_dns = None, !.auto_gateway = None,
                                !.auto_routes = None, !.auto_table_id = None]
              ELSE self
    IN IF ~s1.enabled
       THEN [s1 EXCEPT !.dhcp = None, !.addresses = None]
       ELSE s1

Ipv4_cleanup(self) ==
    LET s1 == IF ~self.enabled
              THEN [self EXCEPT !.dhcp = None, !.addresses = None]
              ELSE self
    IN IF s1.dhcp # Some(TRUE)
       THEN [s1 EXCEPT !.auto_dns = None, !.auto_gateway = None,
                       !.auto_routes = None, !.auto_table_id = None]
       ELSE s1

\* Mutant of Ipv4_update: dhcp is copied whether or not the patch declares it.
Ipv4_update_dhcp_always(self, other) ==
    LET has(name) == contains(other.prop_list, name)
    IN Ipv4_cleanup(
        [enabled |-> IF has("enabled") THEN other.enabled ELSE self.enabled,
         dhcp |-> other.dhcp,
         addresses |-> IF has("addresses") THEN other.addresses ELSE self.addresses,
         dns |-> IF has("dns") THEN other.dns ELSE self.dns,
         auto_dns |-> IF has("auto_dns") THEN other.auto_dns ELSE self.auto_dns,
         auto_gateway |-> IF has("auto_gateway") THEN other.auto_gateway
                          ELSE self.auto_gateway,
         auto_routes |-> IF has("auto_routes") THEN other.auto_routes
                         ELSE self.auto_routes,
         auto_table_id |-> IF has("auto_table_id") THEN other.auto_table_id
                           ELSE self.auto_table_id,
         prop_list |-> push_missing(self.prop_list, other.prop_list)])

Ipv4_update(self, other) ==
    LET has(name) == contains(other.prop_list, name)
    IN Ipv4_cleanup(
        [enabled |-> IF has("enabled") THEN other.enabled ELSE self.enabled,
         dhcp |-> IF has("dhcp") THEN other.dhcp ELSE self.dhcp,
         addresses |-> IF has("addresses") THEN other.addresses ELSE self.addresses,
         dns |-> IF has("dns") THEN other.dns ELSE self.dns,
         auto_dns |-> IF has("auto_dns") THEN other.auto_dns ELSE self.auto_dns,
         auto_gateway |-> IF has("auto_gateway") THEN other.auto_gateway
                          ELSE self.auto_gateway,
         auto_routes |-> IF has("auto_routes") THEN other.auto_routes
                         ELSE self.auto_routes,
         auto_table_id |-> IF has("auto_table_id") THEN other.auto_table_id
                           ELSE self.auto_table_id,
         prop_list |-> push_missing(self.prop_list, other.prop_list)])

\* The is_auto() branch: the three defaults, then the static addresses dropped.
Ipv4_auto_defaults(self) ==
    LET s1 == IF is_none(self.auto_dns) THEN [self EXCEPT !.auto_dns = Some(TRUE)] ELSE self
        s2 == IF is_none(s1.auto_routes) THEN [s1 EXCEPT !.auto_routes = Some(TRUE)] ELSE s1
        s3 == IF is_none(s2.auto_gateway) THEN [s2 EXCEPT !.auto_gateway = Some(TRUE)] ELSE s2
    IN IF is_some(s3.addresses) /\ Len(unwrap(s3.addresses)) > 0
       THEN [s3 EXCEPT !.addresses = None]
       ELSE s3

\* Mutant of Ipv4_pre_edit_cleanup: the closing cleanup is missing.
Ipv4_pre_edit_cleanup_no_cleanup(self) ==
    IF Ipv4_is_auto(self) THEN Ipv4_auto_defaults(self) ELSE self

Ipv4_pre_edit_cleanup(self) ==
    Ipv4_cleanup(IF Ipv4_is_auto(self) THEN Ipv4_auto_defaults(self) ELSE self)

\* if let Some(addrs) = self.addresses.as_mut() { addrs.sort_unstable_by(...) }
Ipv4_sort_addresses(self) ==
    IF is_some(self.addresses)
    THEN [self EXCEPT !.addresses = Some(sort_unstable_by(unwrap(self.addresses)))]
    ELSE self

Ipv4_pre_verify_cleanup(self) ==
    LET s1 == Ipv4_cleanup(self)
        s2 == IF s1.dhcp = Some(TRUE) THEN [s1 EXCEPT !.addresses = None] ELSE s1
        s3 == Ipv4_sort_addresses(s2)
    IN IF s3.dhcp # Some(TRUE) THEN [s3 EXCEPT !.dhcp = Some(FALSE)] ELSE s3

-----------------------------------------------------------------------------
\* InterfaceIpv6

Ipv6_new ==
    [enabled |-> FALSE, prop_list |-> <<>>, dhcp |-> None, autoconf |-> None,
     addresses |-> None, dns |-> None, auto_dns |-> None, auto_gateway |-> None,
     auto_routes |-> None, auto_table_id |-> None]

Ipv6_is_auto(self) ==
    self.enabled /\ (self.dhcp = Some(TRUE) \/ self.autoconf = Some(TRUE))

\* Mutant of Ipv6_cleanup: a disabled family keeps its autoconf.
Ipv6_cleanup_keep_autoconf(self) ==
    LET s1 == IF ~self.enabled
              THEN [self EXCEPT !.dhcp = None, !.addresses = None]
              ELSE self
    IN IF ~Ipv6_is_auto(s1)
       THEN [s1 EXCEPT !.auto_dns = None, !.auto_gateway = None,
                       !.auto_routes = None, !.auto_table_id = None]
       ELSE s1

Ipv6_cleanup(self) ==
    LET s1 == IF ~self.enabled
              THEN [self EXCEPT !.dhcp = None, !.autoconf = None, !.addresses = None]
              ELSE self
    IN IF ~Ipv6_is_auto(s1)
       THEN [s1 EXCEPT !.auto_dns = None, !.auto_gateway = None,
                       !.auto_routes = None, !.auto_table_id = None]
       ELSE s1

Ipv6_update(self, other) ==
    LET has(name) == contains(other.prop_list, name)
    IN Ipv6_cleanup(
        [enabled |-> IF has("enabled") THEN other.enabled ELSE self.enabled,
         dhcp |-> IF has("dhcp") THEN other.dhcp ELSE self.dhcp,
         autoconf |-> IF has("autoconf") THEN other.autoconf ELSE self.autoconf,
         addresses |-> IF has("addresses") THEN other.addresses ELSE self.addresses,
         auto_dns |-> IF has("auto_dns") THEN other.auto_dns ELSE self.auto_dns,
         auto_gateway |-> IF has("auto_gateway") THEN other.auto_gateway
                          ELSE self.auto_gateway,
         auto_routes |-> IF has("auto_routes") THEN other.auto_routes
                         ELSE self.auto_routes,
         auto_table_id |-> IF has("auto_table_id") THEN other.auto_table_id
                           ELSE self.auto_table_id,
         dns |-> IF has("dns") THEN other.dns ELSE self.dns,
         prop_list |-> push_missing(self.prop_list, other.prop_list)])

\* if let Some(addrs) = self.addresses.as_mut() { addrs.retain(...) }
Ipv6_verify_retain(self) ==
    IF is_some(self.addresses)
    THEN [self EXCEPT !.addresses = Some(retain_not_link_local(unwrap(self.addresses)))]
    ELSE self

Ipv6_sort_addresses(self) ==
    IF is_some(self.addresses)
    THEN [self EXCEPT !.addresses = Some(sort_unstable_by(unwrap(self.addresses)))]
    ELSE self

\* Mutant of Ipv6_pre_verify_cleanup: autoconf is not canonicalized.
Ipv6_pre_verify_cleanup_autoconf_kept(self) ==
    LET s1 == Ipv6_cleanup(self)
        s2 == IF Ipv6_is_auto(s1) THEN [s1 EXCEPT !.addresses = None] ELSE s1
        s3 == Ipv6_sort_addresses(Ipv6_verify_retain(s2))
    IN IF s3.dhcp # Some(TRUE) THEN [s3 EXCEPT !.dhcp = Some(FALSE)] ELSE s3

Ipv6_pre_verify_cleanup(self) ==
    LET s1 == Ipv6_cleanup(self)
        s2 == IF Ipv6_is_auto(s1) THEN [s1 EXCEPT !.addresses = None] ELSE s1
        s3 == Ipv6_sort_addresses(Ipv6_verify_retain(s2))
        s4 == IF s3.dhcp # Some(TRUE) THEN [s3 EXCEPT !.dhcp = Some(FALSE)] ELSE s3
    IN IF s4.autoconf # Some(TRUE) THEN [s4 EXCEPT !.autoconf = Some(FALSE)] ELSE s4

\* The retain of pre_edit_cleanup, which also logs each address it drops.
Ipv6_edit_retain(self) ==
    IF is_some(self.addresses)
    THEN [self EXCEPT !.addresses = Some(retain_not_link_local(unwrap(self.addresses)))]
    ELSE self

\* Mutant of Ipv6_auto_defaults: auto_gateway gets no default.
Ipv6_auto_defaults_no_gateway(self) ==
    LET s1 == IF is_none(self.auto_dns) THEN [self EXCEPT !.auto_dns = Some(TRUE)] ELSE self
        s2 == IF is_none(s1.auto_routes) THEN [s1 EXCEPT !.auto_routes = Some(TRUE)] ELSE s1
    IN IF is_some(s2.addresses) /\ Len(unwrap(s2.addresses)) > 0
       THEN [s2 EXCEPT !.addresses = None]
       ELSE s2

Ipv6_auto_defaults(self) ==
    LET s1 == IF is_none(self.auto_dns) THEN [self EXCEPT !.auto_dns = Some(TRUE)] ELSE self
        s2 == IF is_none(s1.auto_routes) THEN [s1 EXCEPT !.auto_routes = Some(TRUE)] ELSE s1
        s3 == IF is_none(s2.auto_gateway) THEN [s2 EXCEPT !.auto_gateway = Some(TRUE)] ELSE s2
    IN IF is_some(s3.addresses) /\ Len(unwrap(s3.addresses)) > 0
       THEN [s3 EXCEPT !.addresses = None]
       ELSE s3

Ipv6_pre_edit_cleanup(self) ==
    LET s1 == Ipv6_edit_retain(self)
    IN Ipv6_cleanup(IF Ipv6_is_auto(s1) THEN Ipv6_auto_defaults(s1) ELSE s1)

-----------------------------------------------------------------------------
\* Inputs: addresses, address lists and configurations.

Addr(ip, prefix) == [ip |-> ip, prefix_length |-> prefix]

\* 10.0.0.5/24, 10.0.0.1/24, and 10.0.0.5/16, 192.0.2.1/32
CoreAddrs4 == {Addr(<<10, 0, 0, 5>>, 24), Addr(<<10, 0, 0, 1>>, 24)}
MoreAddrs4 == CoreAddrs4 \cup {Addr(<<10, 0, 0, 5>>, 16), Addr(<<192, 0, 2, 1>>, 32)}

\* fe80::1/64 and 2001:db8::1/64
CoreAddrs6 ==
    {Addr(<<65152, 0, 0, 0, 0, 0, 0, 1>>, 64), Addr(<<8193, 3512, 0, 0, 0, 0, 0, 1>>, 64)}

\* and 2001:db8::1/32, fe80::1/9, febf::1/10, fec0::1/64, fe7f::1/64, fe8::1/64,
\* 10.0.0.5/24
MoreAddrs6 ==
    CoreAddrs6 \cup
    {Addr(<<8193, 3512, 0, 0, 0, 0, 0, 1>>, 32),
     Addr(<<65152, 0, 0, 0, 0, 0, 0, 1>>, 9),
     Addr(<<65215, 0, 0, 0, 0, 0, 0, 1>>, 10),
     Addr(<<65216, 0, 0, 0, 0, 0, 0, 1>>, 64),
     Addr(<<65151, 0, 0, 0, 0, 0, 0, 1>>, 64),
     Addr(<<4072, 0, 0, 0, 0, 0, 0, 1>>, 64),
     Addr(<<10, 0, 0, 5>>, 24)}

SeqsUpTo(S, n) == UNION {[1..k -> S] : k \in 0..n}

\* Option<Vec<InterfaceIpAddr>> with lists of at most MaxAddrs entries of S.
OptionAddrs(S) == {None} \cup {Some(l) : l \in SeqsUpTo(S, MaxAddrs)}

OptionTableId == {None, Some(100)}

\* The address lists of the configurations that vary every other field.
FewAddrs(S) ==
    {None, Some(<<>>)} \cup {Some(<<a>>) : a \in S}
    \cup {Some(<<p[1], p[2]>>) : p \in {q \in S \X S : q[1] # q[2]}}

\* Every combination of the fields, over a few address lists.
FullConfs4 ==
    [enabled : BOOLEAN, prop_list : {<<"enabled">>}, dhcp : OptionBool,
     addresses : FewAddrs(CoreAddrs4), dns : {None}, auto_dns : OptionBool,
     auto_gateway : OptionBool, auto_routes : OptionBool,
     auto_table_id : OptionTableId]

\* Every address list, over the fields that decide what happens to addresses.
AddrConfs4 ==
    [enabled : BOOLEAN, prop_list : {<<"enabled", "addresses">>},
     dhcp : {None, Some(TRUE)}, addresses : OptionAddrs(MoreAddrs4), dns : {None},
     auto_dns : {None}, auto_gateway : {None}, auto_routes : {None},
     auto_table_id : {None}]

FullConfs6 ==
    [enabled : BOOLEAN, prop_list : {<<"enabled">>}, dhcp : OptionBool,
     autoconf : OptionBool, addresses : FewAddrs(CoreAddrs6), dns : {None},
     auto_dns : OptionBool, auto_gateway : OptionBool, auto_routes : OptionBool,
     auto_table_id : OptionTableId]

AddrConfs6 ==
    [enabled : BOOLEAN, prop_list : {<<"enabled", "addresses">>},
     dhcp : {None, Some(TRUE)}, autoconf : {None, Some(TRUE)},
     addresses : OptionAddrs(MoreAddrs6), dns : {None},
     auto_dns : {None}, auto_gateway : {None}, auto_routes : {None},
     auto_table_id : {None}]

\* Patches handed to update: the declared fields carry a value, and the last
\* group also carries values in fields it does not declare.
Patches4 ==
    {Ipv4_new}
    \cup {[Ipv4_new EXCEPT !.prop_list = <<"enabled">>, !.enabled = e] : e \in BOOLEAN}
    \cup {[Ipv4_new EXCEPT !.prop_list = <<"dhcp">>, !.dhcp = d] : d \in OptionBool}
    \cup {[Ipv4_new EXCEPT !.prop_list = <<"addresses">>, !.addresses = a] :
            a \in {None, Some(<<>>), Some(<<Addr(<<192, 0, 2, 1>>, 32)>>)}}
    \cup {[Ipv4_new EXCEPT !.prop_list = <<"dns">>, !.dns = Some("dns1")]}
    \cup {[Ipv4_new EXCEPT !.prop_list = <<"auto_dns">>, !.auto_dns = d] : d \in OptionBool}
    \cup {[Ipv4_new EXCEPT !.prop_list = <<"auto_gateway">>, !.auto_gateway = d] :
            d \in OptionBool}
    \cup {[Ipv4_new EXCEPT !.prop_list = <<"auto_routes">>, !.auto_routes = d] :
            d \in OptionBool}
    \cup {[Ipv4_new EXCEPT !.prop_list = <<"auto_table_id">>, !.auto_table_id = t] :
            t \in {None, Some(200)}}
    \cup {[Ipv4_new EXCEPT !.prop_list = <<"dhcp", "enabled">>, !.enabled = e, !.dhcp = d] :
            e \in BOOLEAN, d \in OptionBool}
    \cup {[Ipv4_new EXCEPT !.prop_list = <<"dhcp">>, !.enabled = TRUE, !.dhcp = d,
                           !.addresses = Some(<<Addr(<<192, 0, 2, 1>>, 32)>>),
                           !.dns = Some("dns1"), !.auto_dns = Some(FALSE),
                           !.auto_gateway = Some(FALSE), !.auto_routes = Some(FALSE),
                           !.auto_table_id = Some(200)] : d \in OptionBool}

Patches6 ==
    {Ipv6_new}
    \cup {[Ipv6_new EXCEPT !.prop_list = <<"enabled">>, !.enabled = e] : e \in BOOLEAN}
    \cup {[Ipv6_new EXCEPT !.prop_list = <<"dhcp">>, !.dhcp = d] : d \in OptionBool}
    \cup {[Ipv6_new EXCEPT !.prop_list = <<"autoconf">>, !.autoconf = d] : d \in OptionBool}
    \cup {[Ipv6_new EXCEPT !.prop_list = <<"addresses">>, !.addresses = a] :
            a \in {None, Some(<<>>), Some(<<Addr(<<8193, 3512, 0, 0, 0, 0, 0, 2>>, 64)>>)}}
    \cup {[Ipv6_new EXCEPT !.prop_list = <<"dns">>, !.dns = Some("dns1")]}
    \cup {[Ipv6_new EXCEPT !.prop_list = <<"auto_dns">>, !.auto_dns = d] : d \in OptionBool}
    \cup {[Ipv6_new EXCEPT !.prop_list = <<"auto_gateway">>, !.auto_gateway = d] :
            d \in OptionBool}
    \cup {[Ipv6_new EXCEPT !.prop_list = <<"auto_routes">>, !.auto_routes = d] :
            d \in OptionBool}
    \cup {[Ipv6_new EXCEPT !.prop_list = <<"auto_table_id">>, !.auto_table_id = t] :
            t \in {None, Some(200)}}
    \cup {[Ipv6_new EXCEPT !.prop_list = <<"dhcp", "enabled">>, !.enabled = e, !.dhcp = d] :
            e \in BOOLEAN, d \in OptionBool}
    \cup {[Ipv6_new EXCEPT !.prop_list = <<"autoconf">>, !.enabled = TRUE, !.autoconf = d,
                           !.dhcp = Some(TRUE),
                           !.addresses = Some(<<Addr(<<8193, 3512, 0, 0, 0, 0, 0, 2>>, 64)>>),
                           !.dns = Some("dns1"), !.auto_dns = Some(FALSE),
                           !.auto_gateway = Some(FALSE), !.auto_routes = Some(FALSE),
                           !.auto_table_id = Some(200)] : d \in OptionBool}

-----------------------------------------------------------------------------
\* Interfaces: kernel_ifaces maps an interface name to its base interface, of
\* which the model keeps the two optional family configurations.

Cfg4(enabled, dhcp, addresses) ==
    [Ipv4_new EXCEPT !.enabled = enabled, !.dhcp = dhcp, !.addresses = addresses]

Cfg6(enabled, dhcp, autoconf, addresses) ==
    [Ipv6_new EXCEPT !.enabled = enabled, !.dhcp = dhcp, !.autoconf = autoconf,
                     !.addresses = addresses]

\* The IPv4 block of the loop body.
include_ipv4(ip_conf, cur_ip_conf) ==
    IF /\ is_some(cur_ip_conf)
       /\ Ipv4_is_auto(unwrap(cur_ip_conf))
       /\ is_some(unwrap(cur_ip_conf).addresses)
       /\ is_some(ip_conf)
       /\ unwrap(ip_conf).enabled
       /\ ~Ipv4_is_auto(unwrap(ip_conf))
       /\ is_none(unwrap(ip_conf).addresses)
    THEN Some([unwrap(ip_conf) EXCEPT !.addresses = unwrap(cur_ip_conf).addresses])
    ELSE ip_conf

\* Mutant of include_ipv6: the current family counts as automatic by DHCP only.
include_ipv6_dhcp_only(ip_conf, cur_ip_conf) ==
    IF /\ is_some(cur_ip_conf)
       /\ unwrap(cur_ip_conf).enabled
       /\ unwrap(cur_ip_conf).dhcp = Some(TRUE)
       /\ is_some(unwrap(cur_ip_conf).addresses)
       /\ is_some(ip_conf)
       /\ unwrap(ip_conf).enabled
       /\ ~Ipv6_is_auto(unwrap(ip_conf))
       /\ is_none(unwrap(ip_conf).addresses)
    THEN Some([unwrap(ip_conf) EXCEPT !.addresses = unwrap(cur_ip_conf).addresses])
    ELSE ip_conf

\* The IPv6 block of the loop body.
include_ipv6(ip_conf, cur_ip_conf) ==
    IF /\ is_some(cur_ip_conf)
       /\ Ipv6_is_auto(unwrap(cur_ip_conf))
       /\ is_some(unwrap(cur_ip_conf).addresses)
       /\ is_some(ip_conf)
       /\ unwrap(ip_conf).enabled
       /\ ~Ipv6_is_auto(unwrap(ip_conf))
       /\ is_none(unwrap(ip_conf).addresses)
    THEN Some([unwrap(ip_conf) EXCEPT !.addresses = unwrap(cur_ip_conf).addresses])
    ELSE ip_conf

include_current_ip_address_if_dhcp_on_to_off(chg, cur) ==
    [iface_name \in DOMAIN chg |->
        IF iface_name \notin DOMAIN cur THEN chg[iface_name]
        ELSE [ipv4 |-> include_ipv4(chg[iface_name].ipv4, cur[iface_name].ipv4),
              ipv6 |-> include_ipv6(chg[iface_name].ipv6, cur[iface_name].ipv6)]]

\* Family configurations of the interface sets.  Desired ones are what a user
\* writes; current ones are what the daemon reports.
A4 == Addr(<<10, 0, 0, 5>>, 24)
B4 == Addr(<<192, 0, 2, 1>>, 32)
A6 == Addr(<<8193, 3512, 0, 0, 0, 0, 0, 1>>, 64)
B6 == Addr(<<8193, 3512, 0, 0, 0, 0, 0, 2>>, 64)

DesiredIpv4 ==
    {None, Some(Cfg4(TRUE, Some(FALSE), None)), Some(Cfg4(TRUE, None, None)),
     Some(Cfg4(TRUE, Some(FALSE), Some(<<>>))), Some(Cfg4(TRUE, Some(FALSE), Some(<<B4>>))),
     Some(Cfg4(FALSE, None, None)), Some(Cfg4(FALSE, Some(FALSE), None)),
     Some(Cfg4(TRUE, Some(TRUE), None))}

CurrentIpv4 ==
    {None, Some(Cfg4(TRUE, Some(TRUE), Some(<<A4>>))),
     Some(Cfg4(TRUE, Some(TRUE), Some(<<A4, B4>>))),
     Some(Cfg4(TRUE, Some(TRUE), Some(<<>>))), Some(Cfg4(TRUE, Some(TRUE), None)),
     Some(Cfg4(TRUE, Some(FALSE), Some(<<A4>>))), Some(Cfg4(FALSE, None, None)),
     Some(Cfg4(FALSE, Some(TRUE), Some(<<A4>>)))}

DesiredIpv6 ==
    {None, Some(Cfg6(TRUE, Some(FALSE), Some(FALSE), None)),
     Some(Cfg6(TRUE, None, None, None)),
     Some(Cfg6(TRUE, Some(FALSE), Some(FALSE), Some(<<>>))),
     Some(Cfg6(TRUE, Some(FALSE), Some(FALSE), Some(<<B6>>))),
     Some(Cfg6(FALSE, None, None, None)),
     Some(Cfg6(TRUE, Some(TRUE), Some(FALSE), None)),
     Some(Cfg6(TRUE, Some(FALSE), Some(TRUE), None))}

CurrentIpv6 ==
    {None, Some(Cfg6(TRUE, Some(TRUE), Some(TRUE), Some(<<A6>>))),
     Some(Cfg6(TRUE, Some(FALSE), Some(TRUE), Some(<<A6, B6>>))),
     Some(Cfg6(TRUE, Some(TRUE), Some(FALSE), Some(<<>>))),
     Some(Cfg6(TRUE, Some(TRUE), Some(TRUE), None)),
     Some(Cfg6(TRUE, Some(FALSE), Some(FALSE), Some(<<A6>>))),
     Some(Cfg6(FALSE, None, None, None)),
     Some(Cfg6(FALSE, Some(TRUE), Some(TRUE), Some(<<A6>>)))}

Iface(v4, v6) == [ipv4 |-> v4, ipv6 |-> v6]

\* The second interface takes a few configurations only.
OtherDesired ==
    {Iface(Some(Cfg4(TRUE, Some(FALSE), None)), Some(Cfg6(TRUE, Some(FALSE), Some(FALSE), None))),
     Iface(Some(Cfg4(TRUE, Some(TRUE), None)), None)}

OtherCurrent ==
    {Iface(Some(Cfg4(TRUE, Some(TRUE), Some(<<B4>>))),
           Some(Cfg6(TRUE, Some(TRUE), Some(TRUE), Some(<<B6>>)))),
     Iface(Some(Cfg4(TRUE, Some(FALSE), Some(<<B4>>))), None)}

NoIfaces == [iface_name \in {} |-> Iface(None, None)]

DesiredStates ==
    {[iface_name \in {"eth0"} |-> Iface(v4, v6)] : v4 \in DesiredIpv4, v6 \in DesiredIpv6}
    \cup {[iface_name \in {"eth0", "eth1"} |->
            IF iface_name = "eth0" THEN Iface(v4, v6) ELSE o] :
            v4 \in DesiredIpv4, v6 \in DesiredIpv6, o \in OtherDesired}

CurrentStates ==
    {NoIfaces}
    \cup {[iface_name \in {"eth0"} |-> Iface(v4, v6)] : v4 \in CurrentIpv4, v6 \in CurrentIpv6}
    \cup {[iface_name \in {"eth1"} |-> o] : o \in OtherCurrent}
    \cup {[iface_name \in {"eth0", "eth1"} |->
            IF iface_name = "eth0" THEN Iface(v4, v6) ELSE o] :
            v4 \in CurrentIpv4, v6 \in CurrentIpv6, o \in OtherCurrent}

-----------------------------------------------------------------------------
\* NmApi (nm/nm_dbus/nm_api.rs): the calls of this process to the daemon.
\* A Result is a record: Ok(v) carries a value, Err(kind, msg) an NmError.

Ok(v) == [ok |-> TRUE, val |-> v, kind |-> "", msg |-> ""]
Err(kind, msg) == [ok |-> FALSE, val |-> <<>>, kind |-> kind, msg |-> msg]

\* Most checkpoints the daemon ever hands out.
MaxCheckpoints == 3

\* A checkpoint handle is a non-empty string (an object path); "" is <<>>.
Handle(i) == <<"cp", i>>
Handles == {Handle(i) : i \in 1..MaxCheckpoints}
EmptyHandle == <<>>

\* One call sent to the daemon.
Request(method, handle, secs) == [method |-> method, handle |-> handle, secs |-> secs]

\* The invocation of NmApi under way or just finished: its arguments, the
\* replies to its list queries, the checkpoint calls it sent, and its result.
Invocation(pc, name, checkpoint, secs, queries, target, calls, result) ==
    [pc |-> pc, op |-> name, checkpoint |-> checkpoint, secs |-> secs,
     queries |-> queries, target |-> target, calls |-> calls, result |-> result]

NoInvocation == Invocation("idle", "", EmptyHandle, 0, <<>>, EmptyHandle, <<>>, Ok(<<>>))

CpIdle ==
    /\ nm_checkpoints = <<>>
    /\ cp_state = [h \in Handles |-> "NoCheckpoint"]
    /\ inv = NoInvocation

\* Most objects of one kind (connections, devices or active connections) the
\* daemon holds; an object path is its number.
MaxObjects == 2
Paths == 1..MaxObjects

\* What the daemon holds under a path: Some device with its state and the
\* reason of its last state change, or None once the object is deleted.  The
\* states and reasons the code does not name stand as "Disconnected", "None".
\* The devices drawn are a settled one and one for each condition the code
\* waits on.
NmDevices ==
    {[state |-> "Disconnected", state_reason |-> "None"],
     [state |-> "IpConfig", state_reason |-> "None"],
     [state |-> "Deactivating", state_reason |-> "None"],
     [state |-> "Disconnected", state_reason |-> "NewActivation"]}

\* One enumeration under way or just finished: the reply to the list call,
\* the references still to resolve, the replies to the resolutions so far, the
\* objects collected, and the result.
Enumeration(pc, kind, top, paths, log, ret, result) ==
    [pc |-> pc, kind |-> kind, top |-> top, paths |-> paths, log |-> log,
     ret |-> ret, result |-> result]

NoEnumeration == Enumeration("idle", "", Ok(<<>>), <<>>, <<>>, <<>>, Ok(<<>>))

\* One run of wait_checkpoint_rollback: its timeout in seconds, the time since
\* start, the sleeps taken, what each listing read showed, the number of
\* listings started and the time of the last start, the result, and whether a
\* device was waiting when it returned.
Wait(pc, timeout, now, sleeps, seen, polls, polled_at, result, still_waiting) ==
    [pc |-> pc, timeout |-> timeout, now |-> now, sleeps |-> sleeps, seen |-> seen,
     polls |-> polls, polled_at |-> polled_at, result |-> result,
     still_waiting |-> still_waiting]

NoWait == Wait("idle", 0, 0, 0, <<>>, 0, 0, Ok(<<>>), FALSE)

DevIdle ==
    /\ nm_objs = [p \in Paths |-> None]
    /\ en = NoEnumeration
    /\ pl = NoWait

EthIdle ==
    /\ iface_ethtool = None
    /\ nm_conn_ethtool = None
    /\ eth_prev = None
    /\ eth_op = "new"

ApiIdle == CpIdle /\ DevIdle /\ EthIdle

-----------------------------------------------------------------------------
\* The state machine of one family configuration: conf is the configuration,
\* op the last operation applied to it, prev the configuration it was applied
\* to, and patch the argument of the last update.

IpInit ==
    /\ \/ family = "ipv4" /\ conf \in FullConfs4 \cup AddrConfs4 /\ patch = Ipv4_new
       \/ family = "ipv6" /\ conf \in FullConfs6 \cup AddrConfs6 /\ patch = Ipv6_new
    /\ prev = conf
    /\ op = "new"

IpIdle ==
    /\ family = "ipv4"
    /\ conf = Ipv4_new
    /\ prev = Ipv4_new
    /\ patch = Ipv4_new
    /\ op = "new"

AggIdle ==
    /\ chg_net_state = NoIfaces
    /\ current = NoIfaces
    /\ agg_prev = NoIfaces
    /\ agg_op = "new"

Ipv4Cleanup ==
    /\ family = "ipv4"
    /\ conf' = Ipv4_cleanup(conf)
    /\ prev' = conf
    /\ patch' = Ipv4_new
    /\ op' = "cleanup"
    /\ UNCHANGED <<family, aggVars, apiVars>>

\* update merges a patch into a configuration as it was built.
Ipv4Update ==
    /\ family = "ipv4"
    /\ op = "new"
    /\ \E other \in Patches4 :
        /\ conf' = Ipv4_update(conf, other)
        /\ patch' = other
    /\ prev' = conf
    /\ op' = "update"
    /\ UNCHANGED <<family, aggVars, apiVars>>

Ipv4PreEditCleanup ==
    /\ family = "ipv4"
    /\ conf' = Ipv4_pre_edit_cleanup(conf)
    /\ prev' = conf
    /\ patch' = Ipv4_new
    /\ op' = "pre_edit_cleanup"
    /\ UNCHANGED <<family, aggVars, apiVars>>

Ipv4PreVerifyCleanup ==
    /\ family = "ipv4"
    /\ conf' = Ipv4_pre_verify_cleanup(conf)
    /\ prev' = conf
    /\ patch' = Ipv4_new
    /\ op' = "pre_verify_cleanup"
    /\ UNCHANGED <<family, aggVars, apiVars>>

Ipv6Cleanup ==
    /\ family = "ipv6"
    /\ conf' = Ipv6_cleanup(conf)
    /\ prev' = conf
    /\ patch' = Ipv6_new
    /\ op' = "cleanup"
    /\ UNCHANGED <<family, aggVars, apiVars>>

Ipv6Update ==
    /\ family = "ipv6"
    /\ op = "new"
    /\ \E other \in Patches6 :
        /\ conf' = Ipv6_update(conf, other)
        /\ patch' = other
    /\ prev' = conf
    /\ op' = "update"
    /\ UNCHANGED <<family, aggVars, apiVars>>

Ipv6PreEditCleanup ==
    /\ family = "ipv6"
    /\ conf' = Ipv6_pre_edit_cleanup(conf)
    /\ prev' = conf
    /\ patch' = Ipv6_new
    /\ op' = "pre_edit_cleanup"
    /\ UNCHANGED <<family, aggVars, apiVars>>

Ipv6PreVerifyCleanup ==
    /\ family = "ipv6"
    /\ conf' = Ipv6_pre_verify_cleanup(conf)
    /\ prev' = conf
    /\ patch' = Ipv6_new
    /\ op' = "pre_verify_cleanup"
    /\ UNCHANGED <<family, aggVars, apiVars>>

Init == IpInit /\ AggIdle /\ ApiIdle

Next ==
    \/ Ipv4Cleanup
    \/ Ipv4Update
    \/ Ipv4PreEditCleanup
    \/ Ipv4PreVerifyCleanup
    \/ Ipv6Cleanup
    \/ Ipv6Update
    \/ Ipv6PreEditCleanup
    \/ Ipv6PreVerifyCleanup

Spec == Init /\ [][Next]_vars

-----------------------------------------------------------------------------
\* The state machine of the interface sets: chg_net_state is the desired state,
\* current the current one, agg_prev the desired state before the last call.

AggInit ==
    /\ chg_net_state \in DesiredStates
    /\ current \in CurrentStates
    /\ agg_prev = chg_net_state
    /\ agg_op = "new"

IncludeCurrentIpAddress ==
    /\ chg_net_state' = include_current_ip_address_if_dhcp_on_to_off(chg_net_state, current)
    /\ agg_prev' = chg_net_state
    /\ agg_op' = "include_current_ip_address_if_dhcp_on_to_off"
    /\ UNCHANGED <<current, ipVars, apiVars>>

InitAgg == IpIdle /\ AggInit /\ ApiIdle

NextAgg == IncludeCurrentIpAddress

SpecAgg == InitAgg /\ [][NextAgg]_vars

-----------------------------------------------------------------------------
\* The checkpoints of the daemon, as the spec describes them: the daemon keeps
\* the ordered list of open checkpoints; destroy commits an open checkpoint,
\* rollback reverts it, and either takes it off the list; a checkpoint that is
\* not open is refused; any call can fail on the bus and then changes nothing.

Open(h) == h \in Handles /\ cp_state[h] = "Active"

Refused == Err("DaemonError", "object does not exist")
Failed == Err("DaemonError", "call failed")

\* A reply that comes with no change of the checkpoints.
NoEffect(reply) == [reply |-> reply, cps |-> nm_checkpoints, st |-> cp_state]

\* A new checkpoint takes the lowest unused handle and joins the list at
\* either end.
DaemonCreate ==
    LET unused == {i \in 1..MaxCheckpoints : cp_state[Handle(i)] = "NoCheckpoint"}
    IN  IF unused = {} THEN {NoEffect(Refused)}
        ELSE LET h == Handle(CHOOSE i \in unused : \A j \in unused : i <= j)
                 st == [cp_state EXCEPT ![h] = "Active"]
             IN  {[reply |-> Ok(h), cps |-> <<h>> \o nm_checkpoints, st |-> st],
                  [reply |-> Ok(h), cps |-> nm_checkpoints \o <<h>>, st |-> st]}

DaemonEnd(h, terminal) ==
    IF Open(h)
    THEN {[reply |-> Ok(<<>>), cps |-> SelectSeq(nm_checkpoints, LAMBDA x : x # h),
           st |-> [cp_state EXCEPT ![h] = terminal]]}
    ELSE {NoEffect(Refused)}

DaemonExtend(h) == IF Open(h) THEN {NoEffect(Ok(<<>>))} ELSE {NoEffect(Refused)}

\* What the daemon may do with one request.
Daemon(req) ==
    {NoEffect(Failed)}
    \cup CASE req.method = "checkpoint_create" -> DaemonCreate
           [] req.method = "checkpoint_destroy" -> DaemonEnd(req.handle, "Committed")
           [] req.method = "checkpoint_rollback" -> DaemonEnd(req.handle, "RolledBack")
           [] req.method = "checkpoint_timeout_extend" -> DaemonExtend(req.handle)

\* Replies to NmDbus::checkpoints().
DaemonCheckpoints == {Ok(nm_checkpoints), Failed}

-----------------------------------------------------------------------------
\* NmApi's checkpoint functions.

is_empty(string) == Len(string) = 0

\* checkpoint_create sends the timeout as given.
checkpoint_create(timeout) == Request("checkpoint_create", EmptyHandle, timeout)

\* Mutant of last_active_checkpoint: the last entry of the list is taken.
last_active_checkpoint_last_entry(reply) ==
    IF ~reply.ok THEN reply
    ELSE IF ~is_empty(reply.val) THEN Ok(reply.val[Len(reply.val)])
    ELSE Err("NotFound", "Not active checkpoints")

\* last_active_checkpoint, given the reply of NmDbus::checkpoints(): an error
\* leaves through `?`, else the first entry is taken off the list.
last_active_checkpoint(reply) ==
    IF ~reply.ok THEN reply
    ELSE IF ~is_empty(reply.val) THEN Ok(Head(reply.val))
    ELSE Err("NotFound", "Not active checkpoints")

\* The handle checkpoint_destroy and checkpoint_rollback act on.
checkpoint_destroy(checkpoint, last_active) ==
    Request("checkpoint_destroy", IF is_empty(checkpoint) THEN last_active ELSE checkpoint, 0)

\* Mutant of checkpoint_rollback: the destroy call is sent instead.
checkpoint_rollback_as_destroy(checkpoint, last_active) ==
    Request("checkpoint_destroy", IF is_empty(checkpoint) THEN last_active ELSE checkpoint, 0)

checkpoint_rollback(checkpoint, last_active) ==
    Request("checkpoint_rollback", IF is_empty(checkpoint) THEN last_active ELSE checkpoint, 0)

\* Mutant of checkpoint_timeout_extend: the added time is sent in milliseconds.
checkpoint_timeout_extend_millis(checkpoint, added_time_sec) ==
    Request("checkpoint_timeout_extend", checkpoint, added_time_sec * 1000)

checkpoint_timeout_extend(checkpoint, added_time_sec) ==
    Request("checkpoint_timeout_extend", checkpoint, added_time_sec)

\* One request goes to the daemon; its reply is the result of the invocation.
Send(name, checkpoint, secs, queries, target, req) ==
    \E o \in Daemon(req) :
        /\ nm_checkpoints' = o.cps
        /\ cp_state' = o.st
        /\ inv' = Invocation("done", name, checkpoint, secs, queries, target,
                             <<[method |-> req.method, handle |-> req.handle,
                                secs |-> req.secs, reply |-> o.reply]>>, o.reply)

\* First step of checkpoint_destroy / checkpoint_rollback: with a handle the
\* call is sent at once; with "" the list is asked first, and the call follows
\* in a second step, the daemon being free to act in between.
Begin(name, checkpoint) ==
    /\ inv.pc # "resolved"
    /\ IF ~is_empty(checkpoint)
       THEN Send(name, checkpoint, 0, <<>>, EmptyHandle,
                 IF name = "checkpoint_destroy"
                 THEN checkpoint_destroy(checkpoint, EmptyHandle)
                 ELSE checkpoint_rollback(checkpoint, EmptyHandle))
       ELSE \E reply \in DaemonCheckpoints :
                LET r == last_active_checkpoint(reply)
                IN  /\ inv' = IF r.ok
                              THEN Invocation("resolved", name, checkpoint, 0, <<reply>>,
                                              r.val, <<>>, Ok(<<>>))
                              ELSE Invocation("done", name, checkpoint, 0, <<reply>>,
                                              EmptyHandle, <<>>, r)
                    /\ UNCHANGED <<nm_checkpoints, cp_state>>

CheckpointCreate ==
    /\ inv.pc # "resolved"
    /\ \E timeout \in {30} :
        Send("checkpoint_create", EmptyHandle, timeout, <<>>, EmptyHandle,
             checkpoint_create(timeout))
    /\ UNCHANGED <<ipVars, aggVars, devVars, ethVars>>

CheckpointDestroy ==
    /\ \E checkpoint \in Handles \cup {EmptyHandle} : Begin("checkpoint_destroy", checkpoint)
    /\ UNCHANGED <<ipVars, aggVars, devVars, ethVars>>

CheckpointRollback ==
    /\ \E checkpoint \in Handles \cup {EmptyHandle} : Begin("checkpoint_rollback", checkpoint)
    /\ UNCHANGED <<ipVars, aggVars, devVars, ethVars>>

\* Second step of checkpoint_destroy("") / checkpoint_rollback("").
CheckpointResolved ==
    /\ inv.pc = "resolved"
    /\ Send(inv.op, inv.checkpoint, 0, inv.queries, inv.target,
            IF inv.op = "checkpoint_destroy"
            THEN checkpoint_destroy(inv.checkpoint, inv.target)
            ELSE checkpoint_rollback(inv.checkpoint, inv.target))
    /\ UNCHANGED <<ipVars, aggVars, devVars, ethVars>>

CheckpointTimeoutExtend ==
    /\ inv.pc # "resolved"
    /\ \E checkpoint \in Handles, added_time_sec \in {5, 60} :
        Send("checkpoint_timeout_extend", checkpoint, added_time_sec, <<>>, EmptyHandle,
             checkpoint_timeout_extend(checkpoint, added_time_sec))
    /\ UNCHANGED <<ipVars, aggVars, devVars, ethVars>>

\* The timeout of an open checkpoint elapses: the daemon rolls it back.
DaemonTimeout ==
    /\ \E h \in Handles :
        /\ Open(h)
        /\ nm_checkpoints' = SelectSeq(nm_checkpoints, LAMBDA x : x # h)
        /\ cp_state' = [cp_state EXCEPT ![h] = "RolledBack"]
    /\ UNCHANGED <<inv, ipVars, aggVars, devVars, ethVars>>

InitCp == IpIdle /\ AggIdle /\ CpIdle /\ DevIdle /\ EthIdle

NextCp ==
    \/ CheckpointCreate
    \/ CheckpointDestroy
    \/ CheckpointRollback
    \/ CheckpointResolved
    \/ CheckpointTimeoutExtend
    \/ DaemonTimeout

SpecCp == InitCp /\ [][NextCp]_vars

-----------------------------------------------------------------------------
\* The enumerations of NmApi: the list of references, then one resolution for
\* each; the daemon is free to delete objects in between.

\* Replies to the list call: the paths of the objects held, in order.
RECURSIVE Held(_)
Held(n) ==
    IF n = 0 THEN <<>>
    ELSE IF nm_objs[n] = None THEN Held(n - 1) ELSE Append(Held(n - 1), n)

DaemonObjPaths == {Ok(Held(MaxObjects)), Failed}

\* The object as the resolution returns it.
Resolved(p) == [obj_path |-> p, state |-> unwrap(nm_objs[p]).state,
                state_reason |-> unwrap(nm_objs[p]).state_reason]

\* Replies to the resolution of one reference.  That of an active connection
\* is a Result of an Option.
DaemonResolve(kind, p) ==
    IF kind = "active_connections_get"
    THEN IF nm_objs[p] = None THEN {Refused, Failed, Ok(None)}
         ELSE {Ok(Some(Resolved(p))), Failed}
    ELSE IF nm_objs[p] = None THEN {Refused, Failed}
         ELSE {Ok(Resolved(p)), Failed}

\* The loop bodies: what one reply adds to the objects collected.
connections_get(nm_conns, reply) ==
    IF reply.ok THEN Append(nm_conns, reply.val) ELSE nm_conns

\* Mutant of devices_get: a failed resolution empties what was collected.
devices_get_reset_on_error(ret, reply) ==
    IF reply.ok THEN Append(ret, reply.val) ELSE <<>>

devices_get(ret, reply) ==
    IF reply.ok THEN Append(ret, reply.val) ELSE ret

active_connections_get(nm_acs, reply) ==
    IF reply.ok /\ is_some(reply.val) THEN Append(nm_acs, unwrap(reply.val)) ELSE nm_acs

\* The list call of an enumeration: its error is the result (`?`); an empty
\* list ends the loop at once.
ListCall(kind) ==
    \E top \in DaemonObjPaths :
        en' = IF ~top.ok THEN Enumeration("done", kind, top, <<>>, <<>>, <<>>, top)
              ELSE IF top.val = <<>>
              THEN Enumeration("done", kind, top, <<>>, <<>>, <<>>, Ok(<<>>))
              ELSE Enumeration("resolving", kind, top, top.val, <<>>, <<>>, Ok(<<>>))

\* One pass of the loop: the next reference is resolved.
EnumResolve ==
    /\ en.pc = "resolving"
    /\ \E reply \in DaemonResolve(en.kind, Head(en.paths)) :
        LET ret == CASE en.kind = "connections_get" -> connections_get(en.ret, reply)
                     [] en.kind = "devices_get" -> devices_get(en.ret, reply)
                     [] en.kind = "active_connections_get" ->
                            active_connections_get(en.ret, reply)
            log == Append(en.log, [obj_path |-> Head(en.paths), reply |-> reply])
        IN  en' = IF Len(en.paths) = 1
                  THEN Enumeration("done", en.kind, en.top, <<>>, log, ret, Ok(ret))
                  ELSE Enumeration("resolving", en.kind, en.top, Tail(en.paths), log, ret,
                                   Ok(<<>>))
    /\ UNCHANGED <<nm_objs, pl, ipVars, aggVars, cpVars, ethVars>>

ConnectionsGet ==
    /\ en.pc # "resolving"
    /\ ListCall("connections_get")
    /\ UNCHANGED <<nm_objs, pl, ipVars, aggVars, cpVars, ethVars>>

DevicesGet ==
    /\ en.pc # "resolving"
    /\ ListCall("devices_get")
    /\ UNCHANGED <<nm_objs, pl, ipVars, aggVars, cpVars, ethVars>>

ActiveConnectionsGet ==
    /\ en.pc # "resolving"
    /\ ListCall("active_connections_get")
    /\ UNCHANGED <<nm_objs, pl, ipVars, aggVars, cpVars, ethVars>>

\* Another process, or the daemon itself, deletes an object (no one looks at
\* the objects once a run of wait_checkpoint_rollback has returned).
DaemonDelete ==
    /\ pl.pc # "done"
    /\ \E p \in Paths :
        /\ nm_objs[p] # None
        /\ nm_objs' = [nm_objs EXCEPT ![p] = None]
    /\ UNCHANGED <<en, pl, ipVars, aggVars, cpVars, ethVars>>

InitEnum ==
    /\ IpIdle /\ AggIdle /\ CpIdle /\ EthIdle
    /\ nm_objs \in [Paths -> {Some(d) : d \in NmDevices} \cup {None}]
    /\ en = NoEnumeration
    /\ pl = NoWait

NextEnum ==
    \/ ConnectionsGet
    \/ DevicesGet
    \/ ActiveConnectionsGet
    \/ EnumResolve
    \/ DaemonDelete

SpecEnum == InitEnum /\ [][NextEnum]_vars

-----------------------------------------------------------------------------
\* wait_checkpoint_rollback.  Time is counted in ticks of 100 ms since start.

TicksPerSec == 10
SleepTicks == 5

\* Longest timeout drawn, in seconds, and most ticks that pass between two
\* readings of the clock besides the sleep (the calls to the daemon take time).
MaxTimeout == 1
MaxDelay == 1

\* Mutant of within_timeout: the loop stops when the timeout is reached.
within_timeout_strict(elapsed, timeout) == elapsed < timeout * TicksPerSec

\* The loop condition: start.elapsed() <= Duration::from_secs(timeout.into()).
within_timeout(elapsed, timeout) == elapsed <= timeout * TicksPerSec

\* Mutant of is_waiting: a deactivating device is not waited for.
is_waiting_activation_only(nm_dev) ==
    \/ nm_dev.state_reason = "NewActivation"
    \/ nm_dev.state = "IpConfig"

\* The filter over the devices listed.
is_waiting(nm_dev) ==
    \/ nm_dev.state_reason = "NewActivation"
    \/ nm_dev.state = "IpConfig"
    \/ nm_dev.state = "Deactivating"

waiting_nm_devs(nm_devs) == SelectSeq(nm_devs, is_waiting)

\* Mutant of sleep: the interval is 100 ms.
sleep_100ms(now) == now + 1

\* std::thread::sleep of 500 ms.
sleep(now) == now + SleepTicks

\* What an observer notes of a listing, and of the daemon's devices: some
\* device is in a new activation, acquires its IP configuration or deactivates.
Unsettled(d) == d.state_reason = "NewActivation" \/ d.state \in {"IpConfig", "Deactivating"}
ListingUnsettled(nm_devs) == \E i \in 1..Len(nm_devs) : Unsettled(nm_devs[i])
DaemonUnsettled == \E p \in Paths : nm_objs[p] # None /\ Unsettled(unwrap(nm_objs[p]))

Return(result) ==
    [pl EXCEPT !.pc = "done", !.result = result, !.still_waiting = DaemonUnsettled]

\* The run starts: start = Instant::now().
WaitCheckpointRollback ==
    /\ pl.pc = "idle"
    /\ en.pc # "resolving"
    /\ \E timeout \in 0..MaxTimeout :
        pl' = Wait("check", timeout, 0, 0, <<>>, 0, 0, Ok(<<>>), FALSE)
    /\ UNCHANGED <<nm_objs, en, ipVars, aggVars, cpVars, ethVars>>

\* The head of the loop: the clock is read; within the timeout devices_get
\* sends its list call, past it the run returns Timeout.
WaitPoll ==
    /\ pl.pc = "check"
    /\ \E delay \in 0..MaxDelay :
        LET elapsed == pl.now + delay
        IN  IF within_timeout(elapsed, pl.timeout)
            THEN /\ ListCall("devices_get")
                 /\ pl' = [pl EXCEPT !.pc = "listing", !.now = elapsed,
                                     !.polls = @ + 1, !.polled_at = elapsed]
            ELSE /\ pl' = [Return(Err("Timeout",
                                "Timeout on waiting rollback")) EXCEPT !.now = elapsed]
                 /\ en' = en
    /\ UNCHANGED <<nm_objs, ipVars, aggVars, cpVars, ethVars>>

\* The rest of the loop body, devices_get having returned: its error leaves
\* through `?`; with no waiting device the run returns Ok, else it sleeps.
\* The list of devices is dropped at the end of the body.
WaitEvaluate ==
    /\ pl.pc = "listing"
    /\ en.pc = "done"
    /\ pl' = IF ~en.result.ok THEN Return(en.result)
             ELSE IF waiting_nm_devs(en.result.val) = <<>>
             THEN [Return(Ok(<<>>)) EXCEPT
                        !.seen = Append(@, ListingUnsettled(en.result.val))]
             ELSE [pl EXCEPT !.pc = "check", !.now = sleep(@), !.sleeps = @ + 1,
                             !.seen = Append(@, ListingUnsettled(en.result.val))]
    /\ en' = NoEnumeration
    /\ UNCHANGED <<nm_objs, ipVars, aggVars, cpVars, ethVars>>

\* A device changes its state or the reason of it, while a run is under way
\* (no one looks at the devices once it has returned).
DeviceChange ==
    /\ pl.pc \in {"check", "listing"}
    /\ \E p \in Paths, d \in NmDevices :
        /\ nm_objs[p] # None
        /\ nm_objs[p] # Some(d)
        /\ nm_objs' = [nm_objs EXCEPT ![p] = Some(d)]
    /\ UNCHANGED <<en, pl, ipVars, aggVars, cpVars, ethVars>>

NextPoll ==
    \/ WaitCheckpointRollback
    \/ WaitPoll
    \/ EnumResolve
    \/ WaitEvaluate
    \/ DeviceChange
    \/ DaemonDelete

SpecPoll == InitEnum /\ [][NextPoll]_vars

-----------------------------------------------------------------------------
\* gen_ethtool_setting (nm/ethtool.rs).  A section of the interface's ethtool
\* configuration and the connection's ethtool setting are records of Options.
\* Each apply_*_options is its assignments in order, <<setting field, option>>.

PauseAssignments ==
    <<<<"pause_rx", "rx">>, <<"pause_tx", "tx">>, <<"pause_autoneg", "autoneg">>>>

FeatureAssignments ==
    <<<<"feature_rx", "rx_checksum">>, <<"feature_gro", "rx_gro">>,
      <<"feature_lro", "rx_lro">>, <<"feature_rxvlan", "rx_vlan_hw_parse">>,
      <<"feature_txvlan", "tx_vlan_hw_insert">>, <<"feature_ntuple", "rx_ntuple_filter">>,
      <<"feature_rxhash", "rx_hashing">>, <<"feature_sg", "tx_scatter_gather">>,
      <<"feature_tso", "tx_tcp_segmentation">>,
      <<"feature_tso", "tx_generic_segmentation">>,
      <<"feature_highdma", "highdma">>>>

CoalesceAssignments ==
    <<<<"coalesce_adaptive_rx", "adaptive_rx">>, <<"coalesce_adaptive_tx", "adaptive_tx">>,
      <<"coalesce_pkt_rate_high", "pkt_rate_high">>, <<"coalesce_pkt_rate_low", "pkt_rate_low">>,
      <<"coalesce_rx_frames", "rx_frames">>, <<"coalesce_rx_frames_high", "rx_frames_high">>,
      <<"coalesce_rx_frames_low", "rx_frames_low">>, <<"coalesce_rx_frames_irq", "rx_frames_irq">>,
      <<"coalesce_tx_frames", "tx_frames">>, <<"coalesce_tx_frames_high", "tx_frames_high">>,
      <<"coalesce_tx_frames_low", "tx_frames_low">>, <<"coalesce_tx_frames_irq", "tx_frames_irq">>,
      <<"coalesce_rx_usecs", "rx_usecs">>, <<"coalesce_rx_usecs_high", "rx_usecs_high">>,
      <<"coalesce_rx_usecs_low", "rx_usecs_low">>, <<"coalesce_rx_usecs_irq", "rx_usecs_irq">>,
      <<"coalesce_sample_interval", "sample_interval">>,
      <<"coalesce_stats_block_usecs", "stats_block_usecs">>>>

RingAssignments ==
    <<<<"ring_rx", "rx">>, <<"ring_rx_jumbo", "rx_jumbo">>,
      <<"ring_rx_mini", "rx_mini">>, <<"ring_tx", "tx">>>>

Sections ==
    [pause |-> PauseAssignments, feature |-> FeatureAssignments,
     coalesce |-> CoalesceAssignments, ring |-> RingAssignments]

FieldsOf(assignments) == {assignments[i][1] : i \in 1..Len(assignments)}

\* The fields of NmSettingEthtool that the code names; its Default is all None.
SettingFields == UNION {FieldsOf(Sections[sec]) : sec \in DOMAIN Sections}
NmSettingEthtool_default == [f \in SettingFields |-> None]

RECURSIVE Assign(_, _, _)
\* The assignments one after the other: a later one overwrites an earlier one.
Assign(nm_ethtool_set, section_conf, assignments) ==
    IF assignments = <<>> THEN nm_ethtool_set
    ELSE Assign([nm_ethtool_set EXCEPT ![Head(assignments)[1]] =
                        section_conf[Head(assignments)[2]]],
                section_conf, Tail(assignments))

apply_pause_options(nm_ethtool_set, pause_conf) ==
    Assign(nm_ethtool_set, pause_conf, PauseAssignments)

apply_feature_options(nm_ethtool_set, feature_conf) ==
    Assign(nm_ethtool_set, feature_conf, FeatureAssignments)

apply_coalesce_options(nm_ethtool_set, coalesce_conf) ==
    Assign(nm_ethtool_set, coalesce_conf, CoalesceAssignments)

apply_ring_options(nm_ethtool_set, ring_conf) ==
    Assign(nm_ethtool_set, ring_conf, RingAssignments)

\* The value of nm_conn.ethtool after the call.
gen_ethtool_setting(ethtool, nm_conn) ==
    IF is_none(ethtool) THEN nm_conn
    ELSE LET ethtool_iface == unwrap(ethtool)
             set0 == IF is_some(nm_conn) THEN unwrap(nm_conn) ELSE NmSettingEthtool_default
             set1 == IF is_some(ethtool_iface.pause)
                     THEN apply_pause_options(set0, unwrap(ethtool_iface.pause)) ELSE set0
             set2 == IF is_some(ethtool_iface.feature)
                     THEN apply_feature_options(set1, unwrap(ethtool_iface.feature)) ELSE set1
             set3 == IF is_some(ethtool_iface.coalesce)
                     THEN apply_coalesce_options(set2, unwrap(ethtool_iface.coalesce))
                     ELSE set2
             set4 == IF is_some(ethtool_iface.ring)
                     THEN apply_ring_options(set3, unwrap(ethtool_iface.ring)) ELSE set3
         IN  Some(set4)

\* Sections drawn: absent, every option None, or one option switched on (a
\* count for coalesce and ring) and the others off.
SectionConfs(assignments, on, off) ==
    LET options == {assignments[i][2] : i \in 1..Len(assignments)}
    IN  {None, Some([o \in options |-> None])}
        \cup {Some([o \in options |-> IF o = hot THEN Some(on) ELSE Some(off)]) :
                hot \in options}

EthtoolConfigs ==
    {None}
    \cup {Some([pause |-> p, feature |-> f, coalesce |-> c, ring |-> r]) :
            p \in SectionConfs(PauseAssignments, TRUE, FALSE),
            f \in SectionConfs(FeatureAssignments, TRUE, FALSE),
            c \in SectionConfs(CoalesceAssignments, 64, 0),
            r \in SectionConfs(RingAssignments, 256, 0)}

\* The setting of the connection before the call: none, or one with every
\* field set.
NmSettings ==
    {None,
     Some([f \in SettingFields |->
            IF f \in FieldsOf(PauseAssignments) \cup FieldsOf(FeatureAssignments)
            THEN Some(TRUE) ELSE Some(1000)])}

InitEth ==
    /\ IpIdle /\ AggIdle /\ CpIdle /\ DevIdle
    /\ iface_ethtool \in EthtoolConfigs
    /\ nm_conn_ethtool \in NmSettings
    /\ eth_prev = nm_conn_ethtool
    /\ eth_op = "new"

GenEthtoolSetting ==
    /\ nm_conn_ethtool' = gen_ethtool_setting(iface_ethtool, nm_conn_ethtool)
    /\ eth_prev' = nm_conn_ethtool
    /\ eth_op' = "gen_ethtool_setting"
    /\ UNCHANGED <<iface_ethtool, ipVars, aggVars, cpVars, devVars>>

NextEth == GenEthtoolSetting

SpecEth == InitEth /\ [][NextEth]_vars

-----------------------------------------------------------------------------
\* Properties of the family configuration.

Normalized == op \in {"cleanup", "update", "pre_edit_cleanup", "pre_verify_cleanup"}

IsV6Family == family = "ipv6"

IsAuto(c) == IF IsV6Family THEN Ipv6_is_auto(c) ELSE Ipv4_is_auto(c)

Cleanup(c) == IF IsV6Family THEN Ipv6_cleanup(c) ELSE Ipv4_cleanup(c)

PreVerifyCleanup(c) ==
    IF IsV6Family THEN Ipv6_pre_verify_cleanup(c) ELSE Ipv4_pre_verify_cleanup(c)

AutoFields == {"auto_dns", "auto_gateway", "auto_routes", "auto_table_id"}

AddrList(c) == IF is_some(c.addresses) THEN unwrap(c.addresses) ELSE <<>>

Range(l) == {l[i] : i \in 1..Len(l)}

Count(x, l) == Cardinality({i \in 1..Len(l) : l[i] = x})

SameBag(l1, l2) ==
    /\ Len(l1) = Len(l2)
    /\ \A x \in Range(l1) \cup Range(l2) : Count(x, l1) = Count(x, l2)

\* C1: cleanup is idempotent: cleaning up the result of a cleanup, of either
\* family and of any configuration, changes nothing.
C1_CleanupIdempotent == op = "cleanup" => Cleanup(conf) = conf

C1_Witness ==
    /\ op = "cleanup"
    /\ ~prev.enabled
    /\ prev.dhcp = Some(TRUE)
    /\ is_some(prev.addresses)
    /\ is_some(prev.auto_dns)
    /\ conf # prev

DisabledAllNone ==
    /\ conf.dhcp = None
    /\ IsV6Family => conf.autoconf = None
    /\ conf.addresses = None

\* C2 as stated: after any normalization pass a disabled family has dhcp,
\* autoconf (IPv6) and addresses all None.
C2_Original == (Normalized /\ ~conf.enabled) => DisabledAllNone

\* C2 as amended: after cleanup, update and pre_edit_cleanup a disabled family
\* has dhcp, autoconf (IPv6) and addresses None; after pre_verify_cleanup it has
\* addresses None and dhcp and autoconf (IPv6) Some(false).
C2_DisabledCleared ==
    /\ (op \in {"cleanup", "update", "pre_edit_cleanup"} /\ ~conf.enabled) => DisabledAllNone
    /\ (op = "pre_verify_cleanup" /\ ~conf.enabled) =>
            /\ conf.dhcp = Some(FALSE)
            /\ IsV6Family => conf.autoconf = Some(FALSE)
            /\ conf.addresses = None

C2_Witness ==
    /\ op = "pre_verify_cleanup"
    /\ IsV6Family
    /\ ~prev.enabled
    /\ prev.dhcp = Some(TRUE)
    /\ prev.autoconf = Some(TRUE)
    /\ is_some(prev.addresses)
    /\ conf.dhcp = Some(FALSE)
    /\ conf.autoconf = Some(FALSE)

\* C3: after any normalization pass a family that is not in automatic mode has
\* auto_dns, auto_gateway, auto_routes and auto_table_id all None.
C3_NotAutoNoOptions ==
    (Normalized /\ ~IsAuto(conf)) => \A f \in AutoFields : conf[f] = None

C3_Witness ==
    /\ op = "pre_edit_cleanup"
    /\ prev.enabled
    /\ prev.dhcp = Some(FALSE)
    /\ prev.auto_dns = Some(TRUE)
    /\ prev.auto_table_id = Some(100)
    /\ conf.auto_dns = None

\* C4: after pre_verify_cleanup dhcp (and autoconf for IPv6) is never None: it
\* is Some(true) exactly when it was Some(true) on an enabled configuration and
\* Some(false) otherwise; a disabled family ends with dhcp Some(false) and no
\* addresses.
C4_PreVerifyTotal ==
    op = "pre_verify_cleanup" =>
        /\ conf.dhcp = (IF prev.enabled /\ prev.dhcp = Some(TRUE) THEN Some(TRUE) ELSE Some(FALSE))
        /\ IsV6Family =>
            conf.autoconf =
                (IF prev.enabled /\ prev.autoconf = Some(TRUE) THEN Some(TRUE) ELSE Some(FALSE))
        /\ ~conf.enabled => (conf.dhcp = Some(FALSE) /\ conf.addresses = None)

C4_Witness ==
    /\ op = "pre_verify_cleanup"
    /\ IsV6Family
    /\ prev.enabled
    /\ prev.dhcp = Some(TRUE)
    /\ prev.autoconf = None
    /\ conf.dhcp = Some(TRUE)
    /\ conf.autoconf = Some(FALSE)

\* Value of field f after the copy step of update: the patch's value when the
\* patch declares f, the base's value otherwise.
Merged(f) == IF contains(patch.prop_list, f) THEN patch[f] ELSE prev[f]

ValueFields ==
    {"enabled", "dhcp", "addresses", "dns"} \cup AutoFields
    \cup (IF IsV6Family THEN {"autoconf"} ELSE {})

\* C5 as stated: after update every field the patch does not declare keeps the
\* base's value and every field it declares takes the patch's value.
C5_Original == op = "update" => \A f \in ValueFields : conf[f] = Merged(f)

\* C5 as amended: enabled and dns end as the patch's value when declared and
\* unchanged otherwise; dhcp, autoconf and addresses do so when the result is
\* enabled and are None when it is not; the four auto options do so when the
\* result is in automatic mode and are None when it is not; the declared-field
\* set becomes the base's followed by the patch's new names.
C5_UpdateFieldScoped ==
    op = "update" =>
        /\ conf.enabled = Merged("enabled")
        /\ conf.dns = Merged("dns")
        /\ \A f \in ValueFields \ ({"enabled", "dns"} \cup AutoFields) :
                conf[f] = (IF conf.enabled THEN Merged(f) ELSE None)
        /\ \A f \in AutoFields : conf[f] = (IF IsAuto(conf) THEN Merged(f) ELSE None)
        /\ SubSeq(conf.prop_list, 1, Len(prev.prop_list)) = prev.prop_list
        /\ Range(conf.prop_list) = Range(prev.prop_list) \cup Range(patch.prop_list)

C5_Witness ==
    /\ op = "update"
    /\ patch.prop_list = <<"dhcp">>
    /\ prev.prop_list = <<"enabled">>
    /\ prev.enabled
    /\ prev.dhcp = Some(TRUE)
    /\ prev.auto_dns = Some(TRUE)
    /\ patch.dhcp = Some(FALSE)
    /\ patch.auto_dns = Some(FALSE)
    /\ conf.enabled
    /\ conf.dhcp = Some(FALSE)
    /\ conf.auto_dns = None
    /\ conf.prop_list = <<"enabled", "dhcp">>

\* C6: pre_edit_cleanup on a family in automatic mode sets each of auto_dns,
\* auto_gateway, auto_routes that is None to Some(true) and keeps a set value;
\* on a family not in automatic mode the three end as None.
C6_PreEditFill ==
    op = "pre_edit_cleanup" =>
        \A f \in {"auto_dns", "auto_gateway", "auto_routes"} :
            conf[f] = (IF IsAuto(prev)
                       THEN (IF prev[f] = None THEN Some(TRUE) ELSE prev[f])
                       ELSE None)

C6_Witness ==
    /\ op = "pre_edit_cleanup"
    /\ IsV6Family
    /\ prev.enabled
    /\ prev.dhcp = Some(TRUE)
    /\ prev.auto_dns = None
    /\ prev.auto_gateway = None
    /\ prev.auto_routes = Some(FALSE)
    /\ conf.auto_dns = Some(TRUE)
    /\ conf.auto_gateway = Some(TRUE)
    /\ conf.auto_routes = Some(FALSE)

\* fe80::/10: an IPv6 address whose leading group is in fe80..febf, with a
\* prefix length of at least 10.
InLinkLocalRange(a) ==
    /\ IsV6(a.ip)
    /\ a.ip[1] >= 65152
    /\ a.ip[1] <= 65215
    /\ a.prefix_length >= 10

NotInLinkLocalRange(a) == ~InLinkLocalRange(a)

\* C7: automatic mode wins over static addresses: pre_edit_cleanup of an
\* automatic family leaves no address and drops an address list that holds a
\* static address (one outside fe80::/10) to None, pre_verify_cleanup of an
\* automatic family leaves addresses None, and an enabled family that is not
\* automatic keeps its addresses outside fe80::/10 in both passes.
C7_AutoWinsOverStatic ==
    /\ (op = "pre_edit_cleanup" /\ IsAuto(prev)) =>
            /\ AddrList(conf) = <<>>
            /\ (\E a \in Range(AddrList(prev)) : NotInLinkLocalRange(a)) =>
                    conf.addresses = None
    /\ (op = "pre_verify_cleanup" /\ IsAuto(prev)) => conf.addresses = None
    /\ (/\ op \in {"pre_edit_cleanup", "pre_verify_cleanup"}
        /\ prev.enabled
        /\ ~IsAuto(prev)
        /\ is_some(prev.addresses)) =>
            /\ is_some(conf.addresses)
            /\ \A a \in Range(AddrList(prev)) :
                NotInLinkLocalRange(a) => Count(a, AddrList(conf)) = Count(a, AddrList(prev))

\* C8: the IPv6 link-local exclusion is exact: on an enabled family that is not
\* automatic, pre_edit_cleanup and pre_verify_cleanup keep exactly the addresses
\* outside fe80::/10; pre_edit_cleanup leaves no address of fe80::/10 whatever
\* the mode.
C8_LinkLocalExact ==
    /\ (/\ IsV6Family
        /\ op \in {"pre_edit_cleanup", "pre_verify_cleanup"}
        /\ prev.enabled
        /\ ~IsAuto(prev)
        /\ is_some(prev.addresses)) =>
            /\ is_some(conf.addresses)
            /\ SameBag(AddrList(conf), SelectSeq(AddrList(prev), NotInLinkLocalRange))
    /\ (IsV6Family /\ op = "pre_edit_cleanup") =>
            \A a \in Range(AddrList(conf)) : NotInLinkLocalRange(a)

\* (ip1, p1) < (ip2, p2) iff ip1 < ip2, or ip1 = ip2 and p1 < p2, where V4
\* precedes V6 and two addresses of a kind compare group by group.
PairLess(a, b) ==
    \/ Len(a.ip) < Len(b.ip)
    \/ /\ Len(a.ip) = Len(b.ip)
       /\ \E k \in 1..Len(a.ip) :
            /\ a.ip[k] < b.ip[k]
            /\ \A j \in 1..(k - 1) : a.ip[j] = b.ip[j]
    \/ a.ip = b.ip /\ a.prefix_length < b.prefix_length

IsSorted(l) == \A i \in 1..Len(l) : \A j \in (i + 1)..Len(l) : l[i] = l[j] \/ PairLess(l[i], l[j])

ListPermutations(l) == {q \in [1..Len(l) -> Range(l)] : SameBag(q, l)}

\* The addresses of the input that pre_verify_cleanup does not filter out.
Retained(l) == IF IsV6Family THEN SelectSeq(l, NotLinkLocalAddr) ELSE l

\* C9: after pre_verify_cleanup a present address list is sorted ascending by
\* (ip, prefix_length) and is a permutation of the retained input addresses; a
\* configuration with the input list permuted normalizes to the same list, and
\* a second pre_verify_cleanup does not change the list.
C9_SortedPermutation ==
    (op = "pre_verify_cleanup" /\ is_some(conf.addresses)) =>
        /\ IsSorted(AddrList(conf))
        /\ SameBag(AddrList(conf), Retained(AddrList(prev)))
        /\ \A q \in ListPermutations(AddrList(prev)) :
                PreVerifyCleanup([prev EXCEPT !.addresses = Some(q)]).addresses = conf.addresses
        /\ PreVerifyCleanup(conf).addresses = conf.addresses

C9_Witness ==
    /\ op = "pre_verify_cleanup"
    /\ is_some(conf.addresses)
    /\ Len(AddrList(conf)) >= 2
    /\ AddrList(conf) # AddrList(prev)
    /\ Len(AddrList(conf)) = Len(AddrList(prev))
    /\ \E i, j \in 1..Len(AddrList(prev)) :
            /\ i < j
            /\ AddrList(prev)[i].ip = AddrList(prev)[j].ip
            /\ AddrList(prev)[i].prefix_length > AddrList(prev)[j].prefix_length

-----------------------------------------------------------------------------
\* Properties of the interface sets.

Included == agg_op = "include_current_ip_address_if_dhcp_on_to_off"

Both == DOMAIN agg_prev \cap DOMAIN current

\* The current family is automatic with a non-empty address list, and the
\* desired family is enabled, not automatic, and gives no address list.
Switching4(n) ==
    /\ is_some(current[n].ipv4)
    /\ Ipv4_is_auto(unwrap(current[n].ipv4))
    /\ AddrList(unwrap(current[n].ipv4)) # <<>>
    /\ is_some(agg_prev[n].ipv4)
    /\ unwrap(agg_prev[n].ipv4).enabled
    /\ ~Ipv4_is_auto(unwrap(agg_prev[n].ipv4))
    /\ unwrap(agg_prev[n].ipv4).addresses = None

Switching6(n) ==
    /\ is_some(current[n].ipv6)
    /\ Ipv6_is_auto(unwrap(current[n].ipv6))
    /\ AddrList(unwrap(current[n].ipv6)) # <<>>
    /\ is_some(agg_prev[n].ipv6)
    /\ unwrap(agg_prev[n].ipv6).enabled
    /\ ~Ipv6_is_auto(unwrap(agg_prev[n].ipv6))
    /\ unwrap(agg_prev[n].ipv6).addresses = None

\* C10: for every interface of both states and each family on its own, when the
\* current family is automatic with a non-empty address list and the desired one
\* is enabled, not automatic and without an address list, the desired family's
\* addresses equal the current family's after the call.
C10_RetainedAddresses ==
    Included =>
        \A n \in Both :
            /\ Switching4(n) =>
                    /\ is_some(chg_net_state[n].ipv4)
                    /\ unwrap(chg_net_state[n].ipv4).addresses
                            = unwrap(current[n].ipv4).addresses
            /\ Switching6(n) =>
                    /\ is_some(chg_net_state[n].ipv6)
                    /\ unwrap(chg_net_state[n].ipv6).addresses
                            = unwrap(current[n].ipv6).addresses

C10_Witness ==
    /\ Included
    /\ "eth0" \in Both
    /\ "eth1" \in Both
    /\ Switching4("eth0")
    /\ ~Switching6("eth0")
    /\ Switching6("eth1")
    /\ unwrap(chg_net_state["eth0"].ipv4).addresses = Some(<<A4, B4>>)
    /\ chg_net_state["eth0"].ipv6 = agg_prev["eth0"].ipv6
    /\ unwrap(chg_net_state["eth1"].ipv6).addresses = Some(<<B6>>)

\* The cases in which the call is said to leave a desired family alone: the
\* interface is not in current, the desired family gives an address list, is
\* disabled or automatic, or the current family is not automatic or has no
\* address (None or an empty list).
Retains4(n) ==
    \/ n \notin DOMAIN current
    \/ is_none(agg_prev[n].ipv4)
    \/ is_some(unwrap(agg_prev[n].ipv4).addresses)
    \/ ~unwrap(agg_prev[n].ipv4).enabled
    \/ Ipv4_is_auto(unwrap(agg_prev[n].ipv4))
    \/ is_none(current[n].ipv4)
    \/ ~Ipv4_is_auto(unwrap(current[n].ipv4))
    \/ AddrList(unwrap(current[n].ipv4)) = <<>>

Retains6(n) ==
    \/ n \notin DOMAIN current
    \/ is_none(agg_prev[n].ipv6)
    \/ is_some(unwrap(agg_prev[n].ipv6).addresses)
    \/ ~unwrap(agg_prev[n].ipv6).enabled
    \/ Ipv6_is_auto(unwrap(agg_prev[n].ipv6))
    \/ is_none(current[n].ipv6)
    \/ ~Ipv6_is_auto(unwrap(current[n].ipv6))
    \/ AddrList(unwrap(current[n].ipv6)) = <<>>

\* Every field but addresses is as before the call.
SameButAddresses(after, before) ==
    /\ is_some(after) <=> is_some(before)
    /\ is_some(before) =>
            [unwrap(after) EXCEPT !.addresses = None]
                = [unwrap(before) EXCEPT !.addresses = None]

\* C11: the call leaves a desired family as it was (addresses included) when the
\* interface is absent from current, the desired family already gives an
\* address list, is disabled or automatic, the current family is not automatic,
\* or the current family has no address (None or an empty list); it keeps the
\* set of interfaces and changes no field but addresses.
C11_NoOpCases ==
    Included =>
        /\ DOMAIN chg_net_state = DOMAIN agg_prev
        /\ \A n \in DOMAIN agg_prev :
            /\ Retains4(n) => chg_net_state[n].ipv4 = agg_prev[n].ipv4
            /\ Retains6(n) => chg_net_state[n].ipv6 = agg_prev[n].ipv6
            /\ SameButAddresses(chg_net_state[n].ipv4, agg_prev[n].ipv4)
            /\ SameButAddresses(chg_net_state[n].ipv6, agg_prev[n].ipv6)

-----------------------------------------------------------------------------
\* Properties of the checkpoint calls.

Finished(names) == inv.pc = "done" /\ inv.op \in names

EndingOps == {"checkpoint_destroy", "checkpoint_rollback"}

\* The one call of the invocation is of its own kind and goes to handle h.
IssuedOn(h) ==
    /\ Len(inv.calls) = 1
    /\ inv.calls[1].method = inv.op
    /\ inv.calls[1].handle = h

\* C12: checkpoint_destroy and checkpoint_rollback with an empty handle ask the
\* daemon's list once and send their call on its first entry; an empty list
\* gives NotFound and no call; a failed list query gives that error and no
\* call; with a non-empty handle the call goes to that handle and the list is
\* not asked.
C12_HandleResolution ==
    /\ Finished(EndingOps) =>
        IF is_empty(inv.checkpoint)
        THEN /\ Len(inv.queries) = 1
             /\ IF ~inv.queries[1].ok
                THEN inv.result = inv.queries[1] /\ inv.calls = <<>>
                ELSE IF inv.queries[1].val = <<>>
                THEN /\ ~inv.result.ok
                     /\ inv.result.kind = "NotFound"
                     /\ inv.calls = <<>>
                ELSE IssuedOn(inv.queries[1].val[1])
        ELSE inv.queries = <<>> /\ IssuedOn(inv.checkpoint)
    /\ inv.pc = "resolved" =>
        /\ inv.calls = <<>>
        /\ Len(inv.queries) = 1
        /\ inv.queries[1].ok
        /\ inv.queries[1].val # <<>>
        /\ inv.target = inv.queries[1].val[1]

\* destroy("") with the list [cp-2, cp-1] has committed cp-2.
C12_Witness ==
    /\ Finished({"checkpoint_destroy"})
    /\ is_empty(inv.checkpoint)
    /\ inv.queries = <<Ok(<<Handle(2), Handle(1)>>)>>
    /\ IssuedOn(Handle(2))
    /\ inv.result.ok
    /\ cp_state[Handle(2)] = "Committed"
    /\ cp_state[Handle(1)] = "Active"

CheckpointOps ==
    {"checkpoint_create", "checkpoint_destroy", "checkpoint_rollback",
     "checkpoint_timeout_extend"}

\* C17: an invocation of checkpoint_create, checkpoint_destroy,
\* checkpoint_rollback or checkpoint_timeout_extend sends at most one call to
\* the daemon, of its own kind only (a destroy never sends a rollback); when
\* the call fails its error is the result, and a result of success means the
\* call succeeded; create sends its timeout, and extend its handle and its
\* seconds, as they were given.
C17_SingleCallErrorsSurface ==
    Finished(CheckpointOps) =>
        /\ Len(inv.calls) <= 1
        /\ \A i \in 1..Len(inv.calls) :
            /\ inv.calls[i].method = inv.op
            /\ inv.result = inv.calls[i].reply
        /\ inv.result.ok => Len(inv.calls) = 1
        /\ inv.op = "checkpoint_create" =>
            /\ Len(inv.calls) = 1
            /\ inv.calls[1].secs = inv.secs
        /\ inv.op = "checkpoint_timeout_extend" =>
            /\ inv.queries = <<>>
            /\ IssuedOn(inv.checkpoint)
            /\ inv.calls[1].secs = inv.secs

\* A destroy of a checkpoint that the daemon has already rolled back fails
\* with the daemon's error after its one call.
C17_Witness ==
    /\ Finished({"checkpoint_destroy"})
    /\ IssuedOn(Handle(1))
    /\ inv.result = Refused
    /\ cp_state[Handle(1)] = "RolledBack"

\* The daemon's list holds the open checkpoints, each once.
ListHoldsOpen ==
    /\ {nm_checkpoints[i] : i \in 1..Len(nm_checkpoints)} = {h \in Handles : Open(h)}
    /\ Len(nm_checkpoints) = Cardinality({h \in Handles : Open(h)})

\* The invocation is a destroy("") or rollback("") that read the list.
ResolvedEmpty ==
    /\ Finished(EndingOps)
    /\ is_empty(inv.checkpoint)
    /\ Len(inv.queries) = 1
    /\ inv.queries[1].ok

Terminal == {"Committed", "RolledBack"}

\* One step of the checkpoint life cycle.
C18_Step ==
    /\ ListHoldsOpen'
    /\ ResolvedEmpty' =>
        /\ Len(inv'.queries[1].val) = 0 =>
                /\ inv'.calls = <<>>
                /\ ~inv'.result.ok
                /\ inv'.result.kind = "NotFound"
        /\ Len(inv'.queries[1].val) = 1 =>
                /\ IssuedOn(inv.queries[1].val[1])'
                /\ cp_state'[inv'.calls[1].handle] # "NoCheckpoint"
                /\ inv'.result.ok =>
                        cp_state'[inv'.calls[1].handle] =
                            IF inv'.op = "checkpoint_destroy" THEN "Committed"
                            ELSE "RolledBack"
        /\ Len(inv'.queries[1].val) >= 2 => IssuedOn(inv.queries[1].val[1])'
    /\ \A h \in Handles :
        /\ cp_state[h] \in Terminal => cp_state'[h] = cp_state[h]
        /\ cp_state[h] # cp_state'[h] =>
            \/ cp_state[h] = "NoCheckpoint" /\ cp_state'[h] = "Active"
                    /\ inv'.op = "checkpoint_create" /\ inv'.result = Ok(h)
            \/ cp_state[h] = "Active" /\ cp_state'[h] = "Committed"
                    /\ inv'.op = "checkpoint_destroy" /\ IssuedOn(h)' /\ inv'.result.ok
            \/ cp_state[h] = "Active" /\ cp_state'[h] = "RolledBack"
                    /\ \/ inv'.op = "checkpoint_rollback" /\ IssuedOn(h)' /\ inv'.result.ok
                       \/ inv' = inv

\* C18: the daemon's list holding the open checkpoints, a destroy("") or
\* rollback("") that finds one open checkpoint acts on that checkpoint, a
\* handle create returned; a checkpoint leaves Active once, to Committed by
\* the first successful destroy or to RolledBack by the first successful
\* rollback or by the daemon's timeout, and stays there; destroy("") or
\* rollback("") with no checkpoint open fails with NotFound and sends no call;
\* with two or more open the call goes to the first entry of the list.
C18_Lifecycle == [][C18_Step]_vars

\* After create and a successful destroy, destroy("") finds no checkpoint.
C18_Witness ==
    /\ ResolvedEmpty
    /\ inv.queries[1].val = <<>>
    /\ inv.result.kind = "NotFound"
    /\ cp_state[Handle(1)] = "Committed"
    /\ \A h \in Handles \ {Handle(1)} : cp_state[h] = "NoCheckpoint"

-----------------------------------------------------------------------------
\* Properties of wait_checkpoint_rollback.

Returned == pl.pc = "done"
TimedOut == Returned /\ ~pl.result.ok /\ pl.result.kind = "Timeout"
Polls == pl.polls
Deadline == pl.timeout * TicksPerSec
AllUnsettled == \A i \in 1..Len(pl.seen) : pl.seen[i]

C15_Original == Returned => (pl.result.ok \/ TimedOut)

\* C15: a run ends in success, in Timeout, or in the error of devices_get's
\* list call, which is returned as it is; a run under way can always take its
\* next step; no listing starts once the clock read is past the timeout; and
\* the listings number at most timeout / 500 ms + 1.
C15_PollerFailures ==
    /\ Returned =>
        \/ pl.result.ok
        \/ TimedOut
        \/ pl.result = Failed /\ Len(pl.seen) = Polls - 1
    /\ pl.pc \in {"check", "listing"} => ENABLED (WaitPoll \/ EnumResolve \/ WaitEvaluate)
    /\ Polls >= 1 => pl.polled_at <= Deadline
    /\ Polls >= 1 => (Polls - 1) * SleepTicks <= Deadline

\* The list call of the second poll fails and its error is the result.
C15_Witness ==
    /\ Returned
    /\ pl.result = Failed
    /\ pl.sleeps = 1
    /\ Polls = 2

-----------------------------------------------------------------------------
\* Properties of the enumerations.

\* The resolution gave an object.
GaveObject(e) ==
    /\ e.reply.ok
    /\ en.kind = "active_connections_get" => is_some(e.reply.val)

ObjectOf(e) ==
    IF en.kind = "active_connections_get" THEN unwrap(e.reply.val) ELSE e.reply.val

\* The objects of the successful resolutions, in the order of the resolutions.
Collected ==
    LET good == SelectSeq(en.log, GaveObject)
    IN  [i \in 1..Len(good) |-> ObjectOf(good[i])]

\* C16: connections_get, devices_get and active_connections_get fail exactly
\* when the list call fails, with its error; when it succeeds every reference
\* of the list is resolved once, in list order, a reference whose resolution
\* fails is dropped, and the result is the objects of the successful
\* resolutions in list order, whatever the daemon deletes in between.
C16_BestEffortEnumeration ==
    /\ en.pc = "done" =>
        /\ en.result.ok <=> en.top.ok
        /\ ~en.top.ok => en.result = en.top /\ en.log = <<>>
        /\ en.top.ok =>
            /\ [i \in 1..Len(en.log) |-> en.log[i].obj_path] = en.top.val
            /\ en.result.val = Collected
            /\ \A i \in 1..Len(Collected) :
                    \E j \in 1..Len(en.top.val) : Collected[i].obj_path = en.top.val[j]
    /\ en.pc = "resolving" =>
        /\ en.top.ok
        /\ en.ret = Collected
        /\ [i \in 1..Len(en.log) |-> en.log[i].obj_path] \o en.paths = en.top.val

\* devices_get listed two devices; the first was deleted before its
\* resolution and the result holds the second alone.
C16_Witness ==
    /\ en.pc = "done"
    /\ en.kind = "devices_get"
    /\ en.top = Ok(<<1, 2>>)
    /\ en.log[1].reply = Refused
    /\ nm_objs[1] = None
    /\ Len(en.result.val) = 1
    /\ en.result.val[1].obj_path = 2

-----------------------------------------------------------------------------
\* Properties of gen_ethtool_setting.

\* The setting field that belongs to an option of the feature section where the
\* code writes one field from two options: feature_tso is that of
\* tx_tcp_segmentation.
OwnAssignments(sec) ==
    SelectSeq(Sections[sec], LAMBDA a : a # <<"feature_tso", "tx_generic_segmentation">>)

\* C19: with an ethtool configuration on the interface, every option of a
\* present section ends in its own setting field (feature_tso equal to
\* tx_tcp_segmentation and to no other option); the
\* fields of an absent section keep the connection's values (the default when
\* the connection had no setting); without an ethtool configuration the
\* connection's setting is as it was.
C19_FlatFieldCopy ==
    eth_op = "gen_ethtool_setting" =>
        IF is_none(iface_ethtool) THEN nm_conn_ethtool = eth_prev
        ELSE /\ is_some(nm_conn_ethtool)
             /\ \A sec \in DOMAIN Sections :
                    LET section_conf == unwrap(iface_ethtool)[sec]
                        before == IF is_some(eth_prev) THEN unwrap(eth_prev)
                                  ELSE NmSettingEthtool_default
                    IN  IF is_some(section_conf)
                        THEN \A i \in 1..Len(OwnAssignments(sec)) :
                                    unwrap(nm_conn_ethtool)[OwnAssignments(sec)[i][1]]
                                        = unwrap(section_conf)[OwnAssignments(sec)[i][2]]
                        ELSE \A f \in FieldsOf(Sections[sec]) :
                                    unwrap(nm_conn_ethtool)[f] = before[f]

====
